---- MODULE Spec2Model ----
(***************************************************************************)
(* Model of backend/main.py: the vision_websocket connection handler with  *)
(* its three concurrent tasks (receive_from_gemini, receive_from_client,   *)
(* continuous_monitor), the safe_send_json wrapper, execute_tool and the   *)
(* VisionAssistantTools handlers over the process-wide captured_frames.    *)
(*                                                                         *)
(* One step of a task is the code it runs between two suspension points    *)
(* (await).  The content of an upstream response is drawn when the relay   *)
(* reads the corresponding attribute (text, tool_call.function_calls,      *)
(* data, server_content).  Time is counted in half seconds.                *)
(***************************************************************************)
EXTENDS Integers, Sequences, FiniteSets, TLC

VARIABLES
    \* ---- process-wide state (module level)
    captured_frames,        \* dict frame_id -> capture_info
    persisted,              \* content of captures/metadata.json
    files,                  \* captures/*.jpg : filename -> decoded image
    now,                    \* datetime.now(), in half seconds
    \* ---- locals of vision_websocket (one connection)
    latest_frame,           \* latest_frame["data"]
    session_captures,       \* dict frame_id -> capture_info
    continuous_mode,        \* session_state.continuous_mode
    monitoring_context,     \* session_state.monitoring_context
    last_notification_time, \* session_state.last_notification_time
    should_shutdown,
    websocket_open,
    \* ---- locals of receive_from_gemini
    current_text,
    function_responses,
    old_item,
    \* ---- control state of the handler and its three tasks
    hpc,                    \* vision_websocket
    gpc,                    \* receive_from_gemini
    cpc,                    \* receive_from_client
    mpc,                    \* continuous_monitor
    sleepLeft,              \* what remains of the monitor's asyncio.sleep
    \* ---- environment
    clientConnected,        \* the client's end of the websocket is open
    upstreamOpen,           \* the live session accepts sends and yields events
    \* ---- observation (history) of the response being processed
    evCount,                \* number of upstream responses read so far
    callCount,              \* number of function calls read so far
    evCalls,                \* function calls read from the current response
    clientLog,              \* websocket.send_json attempts in the current response
    upstreamLog,            \* function responses sent upstream in the current response
    relayErr,               \* exception caught at the relay's inner except
    foundSeen,              \* the found branch was taken in the current response
    shutdownEv,             \* evCount of the response whose shutdown_session succeeded
    prompts,                \* times at which a monitoring prompt was sent
    endCause,               \* what first ended the session
    saveCount,              \* save_metadata calls made by the cleanup phase
    shutdownSaves,          \* save_metadata calls made by shutdown_session
    lastVideo,              \* payload of the latest video message, None if none
    \* ---- a second connection of the same process, and the last tool call
    peer_captures,          \* session_captures of the other connection
    peer_frame,             \* latest_frame["data"] of the other connection
    peer_state,             \* session_state and flags of the other connection
    active,                 \* which connection the un-prefixed locals belong to
    lastOp,                 \* the last direct tool call: call, result, state before
    staleLen,               \* tokens of current_text received before the latest
                            \* turn-complete marker
    idleLen                 \* tokens of current_text up to the last one received
                            \* while continuous_mode was false

vars == <<captured_frames, persisted, files, now, latest_frame, session_captures,
          continuous_mode, monitoring_context, last_notification_time,
          should_shutdown, websocket_open, current_text, function_responses,
          old_item, hpc, gpc, cpc, mpc, sleepLeft, clientConnected, upstreamOpen,
          evCount, callCount, evCalls, clientLog, upstreamLog, relayErr,
          foundSeen, shutdownEv, prompts, endCause, saveCount, shutdownSaves,
          lastVideo, peer_captures, peer_frame, peer_state, active, lastOp,
          staleLen, idleLen>>

archiveVars == <<captured_frames, persisted, files>>
sessionVars == <<continuous_mode, monitoring_context>>
connVars == <<peer_captures, peer_frame, peer_state, active, lastOp>>
peerVars == <<connVars, staleLen, idleLen>>
relayObs == <<evCalls, clientLog, upstreamLog, relayErr, foundSeen>>

(***************************************************************************)
(* Bounds of the model.                                                    *)
(***************************************************************************)
MaxEvents == 2      \* upstream responses delivered to one connection
MaxCalls == 2       \* function calls issued to one connection
MaxTime == 8        \* horizon of the clock, in half seconds

(***************************************************************************)
(* Program constants.                                                      *)
(***************************************************************************)
MAX_METADATA_ENTRIES == 100
TicksPerSecond == 2         \* the clock counts half seconds (the 0.5 of the monitor)
SecondsPerDay == 86400      \* timedelta.seconds is the remainder within a day
SleepSeconds == 2           \* asyncio.sleep(2)
DedupSeconds == 5           \* if time_diff < 5

None == "none"

\* no tool call made yet (connections are numbered from 1)
NoOp == [conn |-> 0]

\* session_state and the flags of a connection that has just been accepted
FreshState == [cm |-> FALSE, ctx |-> None, lnt |-> 0, open |-> TRUE, shut |-> FALSE]

FrameIds == {"desk"}
TwoPayloads == {"img1", "img2"}
NewIds == {"desk", "door"}
FramePayloads == {"img1"}
Items == {"keys"}

\* Response text is a sequence of tokens; the marker "found" is the token
\* pair fo,und, which a response may deliver whole, in two parts or in
\* upper case.
TextChunks == {<<"FO">>, <<"und">>, <<"FO", "UND">>}


(***************************************************************************)
(* Helpers: dicts, timedelta.seconds, str.lower, substring test.           *)
(***************************************************************************)
Put(d, k, v) == [x \in DOMAIN d \cup {k} |-> IF x = k THEN v ELSE d[x]]
Del(d, k) == [x \in DOMAIN d \ {k} |-> d[x]]
EmptyDict == [x \in {} |-> None]

\* (t2 - t1).seconds for t2 >= t1: whole seconds, days dropped
Seconds(t1, t2) == ((t2 - t1) \div TicksPerSecond) % SecondsPerDay

Lower(tok) == CASE tok = "FO" -> "fo" [] tok = "UND" -> "und" [] OTHER -> tok
LowerAll(chunk) == [i \in 1..Len(chunk) |-> Lower(chunk[i])]
Contains(text, marker) ==
    \E i \in 1..(Len(text) - Len(marker) + 1) :
        SubSeq(text, i, i + Len(marker) - 1) = marker

\* min / max of the keys by d[k]['timestamp']; equal timestamps are
\* resolved by dict order, which the model leaves open
OldestKeys(d) == {k \in DOMAIN d : \A j \in DOMAIN d : d[k].timestamp <= d[j].timestamp}
NewestKeys(d) == {k \in DOMAIN d : \A j \in DOMAIN d : d[k].timestamp >= d[j].timestamp}

(***************************************************************************)
(* VisionAssistantTools.  A handler's outcome is a record: whether the     *)
(* call raised, the result mapping it returned, and the values it leaves   *)
(* in captured_frames (cf), session_captures (sc), metadata.json (pers),   *)
(* the capture files (fl) and session_state (cm, ctx).                     *)
(***************************************************************************)
Outcome(result, cf, sc, pers, fl, cm, ctx) ==
    [raised |-> FALSE, result |-> result, cf |-> cf, sc |-> sc, pers |-> pers,
     fl |-> fl, cm |-> cm, ctx |-> ctx]

\* an outcome that changes nothing
Returns(result) ==
    Outcome(result, captured_frames, session_captures, persisted, files,
            continuous_mode, monitoring_context)

Raises(exc) ==
    [raised |-> TRUE, result |-> [exception |-> exc], cf |-> captured_frames,
     sc |-> session_captures, pers |-> persisted, fl |-> files,
     cm |-> continuous_mode, ctx |-> monitoring_context]

\* save_metadata(metadata): json.dump of the whole dict
save_metadata(metadata) == metadata

\* load_metadata(): json.load of the document; nothing is dropped from it
load_metadata(document) == document

\* f"{frame_id}_{timestamp.strftime('%Y%m%d_%H%M%S')}.jpg"
Filename(frame_id, timestamp) == <<frame_id, timestamp \div TicksPerSecond>>

IsDuplicate(frame_id) ==
    /\ frame_id \in DOMAIN session_captures
    /\ Seconds(session_captures[frame_id].timestamp, now) < DedupSeconds

\* variant of the capture handler without its test of the Frame Store
capture_ignoring_empty_store(frame_id) ==
    IF IsDuplicate(frame_id)
    THEN {Returns([success |-> TRUE, message |-> "Already captured recently",
                   duplicate |-> TRUE])}
    ELSE
      LET filename == Filename(frame_id, now)
          capture_info == [filename |-> filename, timestamp |-> now]
          cf1 == Put(captured_frames, frame_id, capture_info)
          sc1 == Put(session_captures, frame_id, capture_info)
          fl1 == Put(files, filename, latest_frame)
          result == [success |-> TRUE, frame_id |-> frame_id, filename |-> filename,
                     timestamp |-> now, message |-> "Frame captured successfully"]
      IN  {Outcome(result, cf1, sc1, save_metadata(cf1), fl1,
                   continuous_mode, monitoring_context)}

\* variant of the capture handler that records the capture in the archive
\* only
capture_archive_only(frame_id) ==
    IF latest_frame = None
    THEN {Returns([success |-> FALSE, message |-> "No camera frame available to capture"])}
    ELSE IF IsDuplicate(frame_id)
    THEN {Returns([success |-> TRUE, message |-> "Already captured recently",
                   duplicate |-> TRUE])}
    ELSE
      LET filename == Filename(frame_id, now)
          capture_info == [filename |-> filename, timestamp |-> now]
          cf1 == Put(captured_frames, frame_id, capture_info)
          fl1 == Put(files, filename, latest_frame)
          result == [success |-> TRUE, frame_id |-> frame_id, filename |-> filename,
                     timestamp |-> now, message |-> "Frame captured successfully"]
      IN  {Outcome(result, cf1, session_captures, save_metadata(cf1), fl1,
                   continuous_mode, monitoring_context)}

capture_and_save_frame(frame_id) ==
    IF latest_frame = None
    THEN {Returns([success |-> FALSE, message |-> "No camera frame available to capture"])}
    ELSE IF IsDuplicate(frame_id)
    THEN {Returns([success |-> TRUE, message |-> "Already captured recently",
                   duplicate |-> TRUE])}
    ELSE
      LET filename == Filename(frame_id, now)
          capture_info == [filename |-> filename, timestamp |-> now]
          cf1 == Put(captured_frames, frame_id, capture_info)
          sc1 == Put(session_captures, frame_id, capture_info)
          fl1 == Put(files, filename, latest_frame)
          pers1 == save_metadata(cf1)
          result == [success |-> TRUE, frame_id |-> frame_id, filename |-> filename,
                     timestamp |-> now, message |-> "Frame captured successfully"]
      IN  IF Cardinality(DOMAIN cf1) > MAX_METADATA_ENTRIES
          THEN {Outcome(result, Del(cf1, oldest_key), sc1, pers1, fl1,
                        continuous_mode, monitoring_context) :
                    oldest_key \in OldestKeys(cf1)}
          ELSE {Outcome(result, cf1, sc1, pers1, fl1,
                        continuous_mode, monitoring_context)}

\* variant of the enable handler that flips the mode
enable_flipping_mode(looking_for) ==
    {Outcome([success |-> TRUE, message |-> "Continuous monitoring enabled",
              context |-> looking_for],
             captured_frames, session_captures, persisted, files,
             ~continuous_mode, looking_for)}

enable_continuous_monitoring(looking_for) ==
    {Outcome([success |-> TRUE, message |-> "Continuous monitoring enabled",
              context |-> looking_for],
             captured_frames, session_captures, persisted, files, TRUE, looking_for)}

\* variant of the disable handler that leaves the context in place
disable_keeping_context ==
    {Outcome([success |-> TRUE, message |-> "Continuous monitoring disabled"],
             captured_frames, session_captures, persisted, files, FALSE,
             monitoring_context)}

disable_continuous_monitoring ==
    {Outcome([success |-> TRUE, message |-> "Continuous monitoring disabled"],
             captured_frames, session_captures, persisted, files, FALSE, None)}

list_captured_frames ==
    {Returns([success |-> TRUE,
              total_frames |-> Cardinality(DOMAIN captured_frames),
              frames |-> {[frame_id |-> k, filename |-> captured_frames[k].filename,
                           exists |-> captured_frames[k].filename \in DOMAIN files] :
                             k \in DOMAIN captured_frames}])}

get_session_summary ==
    {Returns([success |-> TRUE,
              session_captures |-> Cardinality(DOMAIN session_captures),
              captures |-> DOMAIN session_captures,
              details |-> session_captures])}

\* variant of the delete handler that clears the session view before it
\* looks the frame up
delete_clearing_view(frame_id) ==
    LET sc0 == IF frame_id \in DOMAIN session_captures
               THEN Del(session_captures, frame_id) ELSE session_captures
    IN  IF frame_id \notin DOMAIN captured_frames
        THEN {Outcome([success |-> FALSE, message |-> "Frame not found"],
                      captured_frames, sc0, persisted, files,
                      continuous_mode, monitoring_context)}
        ELSE
          LET filepath == captured_frames[frame_id].filename
              fl1 == IF filepath \in DOMAIN files THEN Del(files, filepath) ELSE files
              cf1 == Del(captured_frames, frame_id)
          IN  {Outcome([success |-> TRUE, message |-> "Frame deleted"],
                       cf1, sc0, save_metadata(cf1), fl1,
                       continuous_mode, monitoring_context)}

\* variant of the delete handler that writes the document before it
\* removes the entry
delete_saving_first(frame_id) ==
    IF frame_id \notin DOMAIN captured_frames
    THEN {Returns([success |-> FALSE, message |-> "Frame not found"])}
    ELSE
      LET filepath == captured_frames[frame_id].filename
          fl1 == IF filepath \in DOMAIN files THEN Del(files, filepath) ELSE files
          cf1 == Del(captured_frames, frame_id)
          sc1 == IF frame_id \in DOMAIN session_captures
                 THEN Del(session_captures, frame_id) ELSE session_captures
      IN  {Outcome([success |-> TRUE, message |-> "Frame deleted"],
                   cf1, sc1, save_metadata(captured_frames), fl1,
                   continuous_mode, monitoring_context)}

delete_frame(frame_id) ==
    IF frame_id \notin DOMAIN captured_frames
    THEN {Returns([success |-> FALSE, message |-> "Frame not found"])}
    ELSE
      LET filepath == captured_frames[frame_id].filename
          fl1 == IF filepath \in DOMAIN files THEN Del(files, filepath) ELSE files
          cf1 == Del(captured_frames, frame_id)
          sc1 == IF frame_id \in DOMAIN session_captures
                 THEN Del(session_captures, frame_id) ELSE session_captures
      IN  {Outcome([success |-> TRUE, message |-> "Frame deleted"],
                   cf1, sc1, save_metadata(cf1), fl1,
                   continuous_mode, monitoring_context)}

shutdown_session ==
    {Outcome([success |-> TRUE, message |-> "Session ended successfully",
              summary |-> [total_captures |-> Cardinality(DOMAIN session_captures),
                           captured_items |-> DOMAIN session_captures]],
             captured_frames, session_captures, save_metadata(captured_frames), files,
             continuous_mode, monitoring_context)}

\* image_path = None: no file to attach (file names are tuples)
NoPath == <<>>

\* attach_frame_id is None, an alias or a frame id; the Gmail call either
\* fails (credentials, HttpError) or sends the message
Aliases == {"current", "latest", "last", "this", "that"}
Attachments(attach_frame_id) ==
    IF attach_frame_id = None THEN {[image_path |-> NoPath, attached_frame |-> None]}
    ELSE IF attach_frame_id \in Aliases
    THEN IF DOMAIN session_captures # {}
         THEN {[image_path |-> session_captures[k].filename, attached_frame |-> k] :
                   k \in NewestKeys(session_captures)}
         ELSE IF DOMAIN captured_frames # {}
         THEN {[image_path |-> captured_frames[k].filename, attached_frame |-> k] :
                   k \in NewestKeys(captured_frames)}
         ELSE {[image_path |-> NoPath, attached_frame |-> None]}
    ELSE IF attach_frame_id \in DOMAIN captured_frames
    THEN {[image_path |-> captured_frames[attach_frame_id].filename,
           attached_frame |-> attach_frame_id]}
    ELSE {[image_path |-> NoPath, attached_frame |-> None]}

send_email(attach_frame_id) ==
    {Returns([success |-> FALSE, message |-> "Failed to send email"])}
    \cup
    {LET image_path == IF a.image_path # NoPath /\ a.image_path \notin DOMAIN files
                       THEN NoPath ELSE a.image_path
     IN  Returns([success |-> TRUE,
                  attached_image |-> image_path,
                  attached_frame_id |-> a.attached_frame,
                  message |-> IF a.attached_frame # None
                              THEN "Email sent with attachment"
                              ELSE "Email sent (no attachment)"]) :
         a \in Attachments(attach_frame_id)}

(***************************************************************************)
(* execute_tool.  A call is [name, ok, arg]: ok says whether the argument  *)
(* map matches the handler's parameters (unpacking it into the handler     *)
(* raises TypeError otherwise); arg is the frame_id, looking_for or        *)
(* attach_frame_id argument.                                               *)
(***************************************************************************)
ToolNames == {"capture_and_save_frame", "enable_continuous_monitoring",
              "disable_continuous_monitoring", "send_email", "list_captured_frames",
              "get_session_summary", "delete_frame", "shutdown_session"}

\* variant of the dispatcher that indexes the registry without testing
\* the name first
execute_tool_by_index(call) ==
    IF call.name \in ToolNames
    THEN IF ~call.ok THEN {Raises("TypeError")}
         ELSE CASE call.name = "capture_and_save_frame" -> capture_and_save_frame(call.arg)
                [] call.name = "enable_continuous_monitoring" ->
                       enable_continuous_monitoring(call.arg)
                [] call.name = "disable_continuous_monitoring" ->
                       disable_continuous_monitoring
                [] call.name = "send_email" -> send_email(call.arg)
                [] call.name = "list_captured_frames" -> list_captured_frames
                [] call.name = "get_session_summary" -> get_session_summary
                [] call.name = "delete_frame" -> delete_frame(call.arg)
                [] call.name = "shutdown_session" -> shutdown_session
    ELSE {Raises("KeyError")}

execute_tool(call) ==
    IF call.name \in ToolNames
    THEN IF ~call.ok THEN {Raises("TypeError")}
         ELSE CASE call.name = "capture_and_save_frame" -> capture_and_save_frame(call.arg)
                [] call.name = "enable_continuous_monitoring" ->
                       enable_continuous_monitoring(call.arg)
                [] call.name = "disable_continuous_monitoring" ->
                       disable_continuous_monitoring
                [] call.name = "send_email" -> send_email(call.arg)
                [] call.name = "list_captured_frames" -> list_captured_frames
                [] call.name = "get_session_summary" -> get_session_summary
                [] call.name = "delete_frame" -> delete_frame(call.arg)
                [] call.name = "shutdown_session" -> shutdown_session
    ELSE {Returns([error |-> "Unknown tool"])}

\* result.get(key): None, which is falsy, when the key is absent
Get(result, key) == IF key \in DOMAIN result THEN result[key] ELSE FALSE

\* the function calls the upstream model issues: every registered tool,
\* an unregistered name, and argument maps that miss a required key or
\* carry an unexpected one
ToolCalls ==
    {[name |-> n, ok |-> TRUE, arg |-> None] :
        n \in {"disable_continuous_monitoring", "list_captured_frames",
               "get_session_summary", "shutdown_session", "send_email",
               "describe_scene"}}
    \cup {[name |-> n, ok |-> TRUE, arg |-> f] :
            n \in {"capture_and_save_frame", "delete_frame"}, f \in FrameIds}
    \cup {[name |-> "enable_continuous_monitoring", ok |-> TRUE, arg |-> i] :
            i \in Items \cup {None}}
    \cup {[name |-> "send_email", ok |-> TRUE, arg |-> "latest"]}
    \cup {[name |-> n, ok |-> FALSE, arg |-> None] :
            n \in {"capture_and_save_frame", "shutdown_session"}}

\* the calls of the coordinator's specifications
CoordCalls ==
    {c \in ToolCalls :
        \/ c.name \in {"capture_and_save_frame", "describe_scene",
                       "disable_continuous_monitoring"}
        \/ c.name = "shutdown_session" /\ c.ok
        \/ c.name = "enable_continuous_monitoring" /\ c.arg # None}

(***************************************************************************)
(* safe_send_json.  outcome is what websocket.send_json does: "ok", the    *)
(* RuntimeError of an already closed socket ("closed"), or another         *)
(* exception ("other"), which the wrapper lets through.                    *)
(***************************************************************************)
SendOutcomes == IF clientConnected THEN {"ok"} ELSE {"closed", "other"}

\* variant of the wrapper without its "if websocket_open" test
unguarded_send_json(open, data, outcome) ==
    [open |-> open /\ outcome # "closed",
     sent |-> <<[data |-> data, outcome |-> outcome]>>,
     raised |-> (outcome = "other")]

safe_send_json(open, data, outcome) ==
    IF open
    THEN [open |-> (outcome # "closed"),
          sent |-> <<[data |-> data, outcome |-> outcome]>>,
          raised |-> (outcome = "other")]
    ELSE [open |-> open, sent |-> <<>>, raised |-> FALSE]

FirstCause(c) == IF endCause = None THEN c ELSE endCause

(***************************************************************************)
(* vision_websocket: accept, upstream handshake, gather, cleanup.          *)
(***************************************************************************)
Init ==
    /\ captured_frames = EmptyDict
    /\ persisted = EmptyDict
    /\ files = EmptyDict
    /\ now = 0
    /\ latest_frame = None
    /\ session_captures = EmptyDict
    /\ continuous_mode = FALSE
    /\ monitoring_context = None
    /\ last_notification_time = 0
    /\ should_shutdown = FALSE
    /\ websocket_open = TRUE
    /\ current_text = <<>>
    /\ function_responses = <<>>
    /\ old_item = None
    /\ hpc = "connecting"
    /\ gpc = "idle"
    /\ cpc = "idle"
    /\ mpc = "idle"
    /\ sleepLeft = 0
    /\ clientConnected = TRUE
    /\ upstreamOpen = FALSE
    /\ evCount = 0
    /\ callCount = 0
    /\ evCalls = <<>>
    /\ clientLog = <<>>
    /\ upstreamLog = <<>>
    /\ relayErr = None
    /\ foundSeen = <<>>
    /\ shutdownEv = 0
    /\ prompts = <<>>
    /\ endCause = None
    /\ saveCount = 0
    /\ shutdownSaves = 0
    /\ lastVideo = None
    /\ peer_captures = EmptyDict
    /\ peer_frame = None
    /\ peer_state = FreshState
    /\ staleLen = 0
    /\ idleLen = 0
    /\ active = 1
    /\ lastOp = NoOp

\* variant of the finally clause without its save_metadata call
CleanupWithoutSave ==
    /\ websocket_open' = FALSE
    /\ UNCHANGED <<persisted, saveCount>>
    /\ latest_frame' = None
    /\ UNCHANGED lastVideo
    /\ hpc' = "closed"

\* the finally clause of vision_websocket
Cleanup ==
    /\ websocket_open' = FALSE
    /\ persisted' = save_metadata(captured_frames)
    /\ saveCount' = saveCount + 1
    /\ latest_frame' = None
    /\ UNCHANGED lastVideo
    /\ hpc' = "closed"

\* client.aio.live.connect succeeds; the status message; the tasks start,
\* and the two receiving tasks test while websocket_open at once
HandlerConnect ==
    /\ hpc = "connecting"
    /\ \E oc \in SendOutcomes :
         LET s == safe_send_json(websocket_open, [type |-> "status"], oc)
         IN  IF s.raised
             THEN /\ Cleanup
                  /\ clientLog' = s.sent
                  /\ endCause' = FirstCause("handshake")
                  /\ UNCHANGED <<upstreamOpen, gpc, cpc, mpc, sleepLeft>>
             ELSE /\ websocket_open' = s.open
                  /\ clientLog' = s.sent
                  /\ UNCHANGED endCause
                  /\ upstreamOpen' = TRUE
                  /\ hpc' = "gather"
                  /\ gpc' = IF s.open THEN "recv" ELSE "done"
                  /\ cpc' = IF s.open THEN "recv" ELSE "done"
                  /\ mpc' = "sleep"
                  /\ sleepLeft' = 0
                  /\ UNCHANGED <<persisted, saveCount, latest_frame, lastVideo>>
    /\ UNCHANGED <<captured_frames, files, peerVars, now, session_captures, sessionVars,
                   last_notification_time, should_shutdown, shutdownSaves, current_text,
                   function_responses, old_item, clientConnected, evCount, callCount,
                   callCount, evCalls, upstreamLog, relayErr, foundSeen,
                   shutdownEv, prompts>>

\* client.aio.live.connect raises: only the finally clause runs
HandlerConnectFail ==
    /\ hpc = "connecting"
    /\ Cleanup
    /\ endCause' = FirstCause("handshake")
    /\ UNCHANGED <<captured_frames, files, peerVars, now, session_captures, sessionVars,
                   last_notification_time, should_shutdown, shutdownSaves, current_text,
                   function_responses, old_item, gpc, cpc, mpc, sleepLeft,
                   clientConnected, upstreamOpen, evCount, callCount, relayObs, shutdownEv,
                   prompts>>

\* asyncio.gather returns: all three tasks returned
HandlerGatherDone ==
    /\ hpc = "gather"
    /\ gpc = "done" /\ cpc = "done" /\ mpc = "done"
    /\ hpc' = "exiting"
    /\ UNCHANGED <<archiveVars, peerVars, now, latest_frame, lastVideo, session_captures, sessionVars,
                   last_notification_time, should_shutdown, shutdownSaves, websocket_open,
                   current_text, function_responses, old_item, gpc, cpc, mpc,
                   sleepLeft, clientConnected, upstreamOpen, evCount, callCount, relayObs,
                   shutdownEv, prompts, endCause, saveCount>>

\* asyncio.gather raises the CancelledError of receive_from_gemini; the
\* other two tasks are not cancelled
HandlerGatherRaised ==
    /\ hpc = "gather"
    /\ gpc = "cancelled"
    /\ websocket_open' = FALSE
    /\ hpc' = "exiting"
    /\ UNCHANGED <<archiveVars, peerVars, now, latest_frame, lastVideo, session_captures, sessionVars,
                   last_notification_time, should_shutdown, shutdownSaves,
                   current_text, function_responses, old_item, gpc, cpc, mpc,
                   sleepLeft, clientConnected, upstreamOpen, evCount, callCount, relayObs,
                   shutdownEv, prompts, endCause, saveCount>>

\* the live session is closed on leaving the async with; then finally
HandlerFinally ==
    /\ hpc = "exiting"
    /\ upstreamOpen' = FALSE
    /\ Cleanup
    /\ UNCHANGED <<captured_frames, files, peerVars, now, session_captures, sessionVars,
                   last_notification_time, should_shutdown, shutdownSaves, current_text,
                   function_responses, old_item, gpc, cpc, mpc, sleepLeft,
                   clientConnected, evCount, callCount, relayObs, shutdownEv, prompts,
                   endCause>>

(***************************************************************************)
(* receive_from_client.                                                    *)
(***************************************************************************)
clientFrame == <<archiveVars, peerVars, now, session_captures, sessionVars,
                 last_notification_time, should_shutdown, shutdownSaves, current_text,
                 function_responses, old_item, hpc, gpc, mpc, sleepLeft,
                 upstreamOpen, evCount, callCount, relayObs, shutdownEv, prompts,
                 saveCount>>

\* the send to the live session that follows a client message: it raises
\* when the session is closed (except Exception: websocket_open = False)
ClientForward ==
    IF upstreamOpen
    THEN /\ cpc' = "sent"
         /\ UNCHANGED websocket_open
    ELSE /\ cpc' = "done"
         /\ websocket_open' = FALSE

\* {"type": "text"}: session.send_client_content
ClientText ==
    /\ cpc = "recv" /\ clientConnected
    /\ ClientForward
    /\ UNCHANGED <<clientFrame, latest_frame, lastVideo, clientConnected, endCause>>

\* {"type": "video"}: the Frame Store is overwritten, then
\* session.send_realtime_input
\* variant of the video branch that fills the Frame Store only when it is
\* empty
ClientVideoKeepingFirst(payloads) ==
    /\ cpc = "recv" /\ clientConnected
    /\ \E data \in payloads :
          /\ latest_frame' = IF latest_frame = None THEN data ELSE latest_frame
          /\ lastVideo' = data
    /\ ClientForward
    /\ UNCHANGED <<clientFrame, clientConnected, endCause>>

ClientVideoOf(payloads) ==
    /\ cpc = "recv" /\ clientConnected
    /\ \E data \in payloads : latest_frame' = data /\ lastVideo' = data
    /\ ClientForward
    /\ UNCHANGED <<clientFrame, clientConnected, endCause>>

ClientVideo == ClientVideoOf(FramePayloads)

\* binary message: session.send_realtime_input of the audio
ClientAudio ==
    /\ cpc = "recv" /\ clientConnected
    /\ ClientForward
    /\ UNCHANGED <<clientFrame, latest_frame, lastVideo, clientConnected, endCause>>

\* a text message that is no JSON object with the expected keys:
\* except Exception
ClientBadMessage ==
    /\ cpc = "recv" /\ clientConnected
    /\ cpc' = "done"
    /\ websocket_open' = FALSE
    /\ endCause' = FirstCause("client_error")
    /\ UNCHANGED <<clientFrame, latest_frame, lastVideo, clientConnected>>

\* the upstream send returned: while websocket_open
ClientLoop ==
    /\ cpc = "sent"
    /\ cpc' = IF websocket_open THEN "recv" ELSE "done"
    /\ UNCHANGED <<clientFrame, latest_frame, lastVideo, websocket_open, clientConnected,
                   endCause>>

\* the client closes its end of the websocket
ClientDisconnect ==
    /\ clientConnected
    /\ clientConnected' = FALSE
    /\ endCause' = FirstCause("client_disconnect")
    /\ UNCHANGED <<clientFrame, latest_frame, lastVideo, websocket_open, cpc>>

\* websocket.receive() after the disconnect: WebSocketDisconnect, or the
\* RuntimeError naming the disconnect message
ClientSeesDisconnect ==
    /\ cpc = "recv" /\ ~clientConnected
    /\ cpc' = "done"
    /\ websocket_open' = FALSE
    /\ UNCHANGED <<clientFrame, latest_frame, lastVideo, clientConnected, endCause>>

(***************************************************************************)
(* continuous_monitor.                                                     *)
(***************************************************************************)
MinIntervalTicks == 1    \* time_since_last >= 0.5

\* variant of the monitor's test without continuous_mode
ShouldPromptInAnyMode ==
    /\ latest_frame # None
    /\ Seconds(last_notification_time, now) * TicksPerSecond >= MinIntervalTicks

\* if session_state.continuous_mode and latest_frame["data"]: ... if
\* time_since_last >= 0.5
ShouldPrompt ==
    /\ continuous_mode
    /\ latest_frame # None
    /\ Seconds(last_notification_time, now) * TicksPerSecond >= MinIntervalTicks

monitorFrame == <<archiveVars, peerVars, latest_frame, lastVideo, session_captures, sessionVars,
                  should_shutdown, shutdownSaves, websocket_open, current_text,
                  function_responses, old_item, hpc, gpc, cpc, clientConnected,
                  upstreamOpen, evCount, callCount, relayObs, shutdownEv, endCause,
                  saveCount>>

\* one iteration of while websocket_open, up to its first await
MonitorTick ==
    /\ mpc = "sleep" /\ sleepLeft = 0
    /\ IF ~websocket_open
       THEN /\ mpc' = "done"
            /\ UNCHANGED <<sleepLeft, prompts>>
       ELSE IF ShouldPrompt /\ upstreamOpen
       THEN /\ mpc' = "sending"
            /\ prompts' = Append(prompts, now)
            /\ UNCHANGED sleepLeft
       ELSE \* nothing to send, or send_client_content raised: sleep(2)
            /\ mpc' = "sleep"
            /\ sleepLeft' = SleepSeconds * TicksPerSecond
            /\ UNCHANGED prompts
    /\ UNCHANGED <<monitorFrame, now, last_notification_time>>

\* send_client_content returned: last_notification_time, then sleep(2)
MonitorSent ==
    /\ mpc = "sending"
    /\ last_notification_time' = IF upstreamOpen THEN now ELSE last_notification_time
    /\ mpc' = "sleep"
    /\ sleepLeft' = SleepSeconds * TicksPerSecond
    /\ UNCHANGED <<monitorFrame, now, prompts>>

(***************************************************************************)
(* Environment: the clock and the live session.                            *)
(***************************************************************************)
\* d half seconds pass; beyond MaxTime the clock's value is no longer
\* told apart, the timer of the sleep still runs
Tick(d) ==
    /\ now < MaxTime \/ sleepLeft > 0
    /\ now' = IF now + d <= MaxTime THEN now + d ELSE MaxTime
    /\ sleepLeft' = IF sleepLeft > d THEN sleepLeft - d ELSE 0
    /\ UNCHANGED <<archiveVars, peerVars, latest_frame, lastVideo, session_captures, sessionVars,
                   last_notification_time, should_shutdown, shutdownSaves, websocket_open,
                   current_text, function_responses, old_item, hpc, gpc, cpc,
                   mpc, clientConnected, upstreamOpen, evCount, callCount, relayObs,
                   shutdownEv, prompts, endCause, saveCount>>

\* the live session's stream ends with an error while the relay awaits
\* the next response
UpstreamFail ==
    /\ upstreamOpen
    /\ hpc = "gather" /\ gpc = "recv"
    /\ upstreamOpen' = FALSE
    /\ endCause' = FirstCause("upstream_error")
    /\ UNCHANGED <<archiveVars, peerVars, now, latest_frame, lastVideo, session_captures, sessionVars,
                   last_notification_time, should_shutdown, shutdownSaves, websocket_open,
                   current_text, function_responses, old_item, hpc, gpc, cpc,
                   mpc, sleepLeft, clientConnected, evCount, callCount, relayObs,
                   shutdownEv, prompts, saveCount>>

(***************************************************************************)
(* receive_from_gemini.  gpc: "recv" awaits the next response; "found2",   *)
(* "found3" are the second and third send of the found branch; "calls" is  *)
(* the head of the loop over function_calls; "followup" the send that      *)
(* depends on the tool's name; "data" what follows send_tool_response;     *)
(* "tail" what follows the audio send; "except" the inner except clause.   *)
(***************************************************************************)
relayFrame == <<now, latest_frame, lastVideo, last_notification_time, hpc, cpc, mpc, sleepLeft,
                clientConnected, upstreamOpen, prompts, saveCount>>

\* "found" in current_text or "FOUND" in current_text
FoundIn(text) == Contains(text, <<"fo", "und">>) \/ Contains(text, <<"FO", "UND">>)

\* current_text += response.text.lower()
Accumulate(text, chunk) == text \o LowerAll(chunk)

\* the relay's client send: the wrapper, the log, and where control goes
RelaySend(data, oc, nextpc) ==
    LET s == safe_send_json(websocket_open, data, oc)
    IN  /\ websocket_open' = s.open
        /\ clientLog' = clientLog \o s.sent
        /\ gpc' = IF s.raised THEN "except" ELSE nextpc
        /\ relayErr' = IF s.raised THEN "WebSocketDisconnect" ELSE relayErr

\* a response arrives while the flag is down: break, and the while ends
RelayBreak ==
    /\ gpc = "recv" /\ upstreamOpen
    /\ ~websocket_open
    /\ gpc' = "done"
    /\ UNCHANGED <<relayFrame, archiveVars, peerVars, session_captures, sessionVars,
                   should_shutdown, shutdownSaves, websocket_open, current_text,
                   function_responses, old_item, evCount, callCount, relayObs, shutdownEv,
                   endCause>>

\* a response arrives: its text part, and the first send of the found branch
RelayText(chunks) ==
    /\ gpc = "recv" /\ upstreamOpen /\ evCount < MaxEvents
    /\ websocket_open
    /\ evCount' = evCount + 1
    /\ evCalls' = <<>> /\ upstreamLog' = <<>> /\ function_responses' = <<>>
    /\ \E chunk \in chunks \cup {<<>>} :
        /\ LET text == IF chunk # <<>> THEN Accumulate(current_text, chunk)
                       ELSE current_text
           IN  IF chunk # <<>> /\ continuous_mode /\ FoundIn(text)
               THEN \E oc \in SendOutcomes, o \in disable_continuous_monitoring :
                      /\ current_text' = text
                      /\ old_item' = monitoring_context
                      /\ foundSeen' = <<monitoring_context>>
                      /\ continuous_mode' = o.cm
                      /\ monitoring_context' = o.ctx
                      /\ LET s == safe_send_json(websocket_open,
                                     [type |-> "tool_executed",
                                      tool |-> "disable_continuous_monitoring",
                                      ref |-> 0, result |-> o.result], oc)
                         IN  /\ websocket_open' = s.open
                             /\ clientLog' = s.sent
                             /\ gpc' = IF s.raised THEN "except" ELSE "found2"
                             /\ relayErr' = IF s.raised THEN "WebSocketDisconnect"
                                            ELSE None
               ELSE /\ current_text' = text
                    /\ gpc' = "calls"
                    /\ clientLog' = <<>> /\ relayErr' = None /\ foundSeen' = <<>>
                    /\ UNCHANGED <<old_item, sessionVars, websocket_open>>
        /\ idleLen' = IF chunk # <<>> /\ ~continuous_mode
                      THEN Len(Accumulate(current_text, chunk)) ELSE idleLen
    /\ UNCHANGED <<relayFrame, archiveVars, connVars, staleLen, session_captures,
                   should_shutdown, shutdownSaves, callCount, shutdownEv, endCause>>

RelayFound2 ==
    /\ gpc = "found2"
    /\ \E oc \in SendOutcomes : RelaySend([type |-> "monitoring_disabled"], oc, "found3")
    /\ UNCHANGED <<relayFrame, archiveVars, peerVars, session_captures, sessionVars,
                   should_shutdown, shutdownSaves, current_text, function_responses, old_item,
                   evCount, callCount, evCalls, upstreamLog, foundSeen, shutdownEv, endCause>>

\* variant of the end of the found branch that closes the connection as
\* the shutdown tool does
RelayFound3Draining ==
    /\ gpc = "found3"
    /\ \E oc \in SendOutcomes :
        LET s == safe_send_json(websocket_open, [type |-> "item_found", item |-> old_item], oc)
        IN  /\ websocket_open' = FALSE
            /\ clientLog' = clientLog \o s.sent
            /\ gpc' = IF s.raised THEN "except" ELSE "calls"
            /\ relayErr' = IF s.raised THEN "WebSocketDisconnect" ELSE relayErr
            /\ current_text' = IF s.raised THEN current_text ELSE <<>>
            /\ staleLen' = IF s.raised THEN staleLen ELSE 0
            /\ idleLen' = IF s.raised THEN idleLen ELSE 0
    /\ UNCHANGED <<relayFrame, archiveVars, connVars, session_captures, sessionVars,
                   should_shutdown, shutdownSaves, function_responses, old_item,
                   evCount, callCount, evCalls, upstreamLog, foundSeen, shutdownEv, endCause>>

RelayFound3 ==
    /\ gpc = "found3"
    /\ \E oc \in SendOutcomes :
        /\ RelaySend([type |-> "item_found", item |-> old_item], oc, "calls")
        /\ current_text' = IF safe_send_json(websocket_open, None, oc).raised
                           THEN current_text ELSE <<>>
        /\ staleLen' = IF safe_send_json(websocket_open, None, oc).raised
                       THEN staleLen ELSE 0
        /\ idleLen' = IF safe_send_json(websocket_open, None, oc).raised
                      THEN idleLen ELSE 0
    /\ UNCHANGED <<relayFrame, archiveVars, connVars, session_captures, sessionVars,
                   should_shutdown, shutdownSaves, function_responses, old_item,
                   evCount, callCount, evCalls, upstreamLog, foundSeen, shutdownEv, endCause>>

\* one iteration of for func_call in response.tool_call.function_calls, up
\* to the await of its tool_executed send
RelayCall(calls) ==
    /\ gpc = "calls"
    /\ callCount < MaxCalls
    /\ callCount' = callCount + 1
    /\ \E call \in calls : \E o \in execute_tool(call) :
        LET id == Len(evCalls) + 1
            shut == call.name = "shutdown_session" /\ Get(o.result, "success")
        IN  /\ evCalls' = Append(evCalls, [id |-> id, name |-> call.name,
                                           ok |-> call.ok, arg |-> call.arg,
                                           result |-> o.result])
            /\ IF o.raised
               THEN /\ gpc' = "except"
                    /\ relayErr' = o.result.exception
                    /\ UNCHANGED <<archiveVars, session_captures, sessionVars,
                                   should_shutdown, shutdownSaves, websocket_open,
                                   function_responses, clientLog, shutdownEv,
                                   endCause>>
               ELSE /\ captured_frames' = o.cf
                    /\ session_captures' = o.sc
                    /\ persisted' = o.pers
                    /\ files' = o.fl
                    /\ continuous_mode' = o.cm
                    /\ monitoring_context' = o.ctx
                    /\ should_shutdown' = (should_shutdown \/ shut)
                    /\ shutdownSaves' = IF call.name = "shutdown_session"
                                        THEN shutdownSaves + 1 ELSE shutdownSaves
                    /\ shutdownEv' = IF shut /\ shutdownEv = 0 THEN evCount
                                     ELSE shutdownEv
                    /\ endCause' = IF shut THEN FirstCause("shutdown") ELSE endCause
                    /\ function_responses' =
                         Append(function_responses,
                                [id |-> id, name |-> call.name, result |-> o.result])
                    /\ \E oc \in SendOutcomes :
                         RelaySend([type |-> "tool_executed", tool |-> call.name,
                                    ref |-> id, result |-> o.result], oc,
                                   IF call.name \in {"enable_continuous_monitoring",
                                                     "disable_continuous_monitoring"}
                                   THEN "followup" ELSE "calls")
    /\ UNCHANGED <<relayFrame, peerVars, current_text, old_item, evCount,
                   upstreamLog, foundSeen>>

\* monitoring_enabled / monitoring_disabled after the tool's notification
RelayFollowup ==
    /\ gpc = "followup"
    /\ LET call == evCalls[Len(evCalls)]
       IN  \E oc \in SendOutcomes :
             IF call.name = "enable_continuous_monitoring"
             THEN RelaySend([type |-> "monitoring_enabled", context |-> call.arg],
                            oc, "calls")
             ELSE RelaySend([type |-> "monitoring_disabled"], oc, "calls")
    /\ UNCHANGED <<relayFrame, archiveVars, peerVars, session_captures, sessionVars,
                   should_shutdown, shutdownSaves, current_text, function_responses, old_item,
                   evCount, callCount, evCalls, upstreamLog, foundSeen, shutdownEv, endCause>>

\* the loop over function_calls is over: session.send_tool_response
RelayToolResponse ==
    /\ gpc = "calls"
    /\ evCalls # <<>>
    /\ IF upstreamOpen
       THEN /\ upstreamLog' = function_responses
            /\ gpc' = "data"
            /\ UNCHANGED relayErr
       ELSE /\ gpc' = "except"
            /\ relayErr' = "ConnectionClosed"
            /\ UNCHANGED upstreamLog
    /\ UNCHANGED <<relayFrame, archiveVars, peerVars, session_captures, sessionVars,
                   should_shutdown, shutdownSaves, websocket_open, current_text,
                   function_responses, old_item, evCount, callCount, evCalls, clientLog,
                   foundSeen, shutdownEv, endCause>>

\* the response carries no tool_call
RelayNoToolCall ==
    /\ gpc = "calls"
    /\ evCalls = <<>>
    /\ gpc' = "data"
    /\ UNCHANGED <<relayFrame, archiveVars, peerVars, session_captures, sessionVars,
                   should_shutdown, shutdownSaves, websocket_open, current_text,
                   function_responses, old_item, evCount, callCount, relayObs, shutdownEv,
                   endCause>>

\* response.data: the audio is forwarded
RelayData ==
    /\ gpc = "data"
    /\ \E oc \in SendOutcomes : RelaySend([type |-> "audio"], oc, "tail")
    /\ UNCHANGED <<relayFrame, archiveVars, peerVars, session_captures, sessionVars,
                   should_shutdown, shutdownSaves, current_text, function_responses, old_item,
                   evCount, callCount, evCalls, upstreamLog, foundSeen, shutdownEv, endCause>>

\* the history of a response is dropped when its processing ends
ForgetResponse ==
    /\ evCalls' = <<>> /\ clientLog' = <<>> /\ upstreamLog' = <<>>
    /\ relayErr' = None /\ foundSeen' = <<>>
    /\ function_responses' = <<>> /\ old_item' = None

\* server_content.turn_complete, if should_shutdown, shutdownSaves, and the next
\* iteration of async for / while websocket_open
RelayTail ==
    /\ gpc \in {"data", "tail"}
    /\ \E turn_complete \in BOOLEAN :
        /\ current_text' = IF turn_complete THEN <<>> ELSE current_text
        /\ staleLen' = IF turn_complete THEN Len(current_text') ELSE staleLen
        /\ idleLen' = IF turn_complete THEN Len(current_text') ELSE idleLen
        /\ IF should_shutdown
           THEN /\ websocket_open' = FALSE
                /\ gpc' = "cancelled"
           ELSE /\ UNCHANGED websocket_open
                /\ gpc' = IF turn_complete /\ ~websocket_open THEN "done" ELSE "recv"
    /\ ForgetResponse
    /\ UNCHANGED <<relayFrame, archiveVars, connVars, session_captures, sessionVars,
                   should_shutdown, shutdownSaves, evCount, callCount, shutdownEv, endCause>>

\* str(e) of the exceptions that reach the inner except clause
MentionsWebsocketClose(exc) == exc = "RuntimeError(websocket.close)"

\* except Exception as e: inside the loop over the responses; the
\* response's turn-complete marker, if it carried one (markers), has not
\* been read
RelayExceptOf(markers) ==
    /\ gpc = "except"
    /\ \E turn_complete \in markers :
          staleLen' = IF turn_complete THEN Len(current_text) ELSE staleLen
    /\ UNCHANGED idleLen
    /\ IF MentionsWebsocketClose(relayErr)
       THEN /\ websocket_open' = FALSE
            /\ gpc' = "done"
       ELSE /\ UNCHANGED websocket_open
            /\ gpc' = "recv"
    /\ ForgetResponse
    /\ UNCHANGED <<relayFrame, archiveVars, connVars, session_captures, sessionVars,
                   should_shutdown, shutdownSaves, current_text, evCount, callCount, shutdownEv, endCause>>

\* a response whose processing is abandoned carried no turn-complete marker
RelayExcept == RelayExceptOf({FALSE})

\* the response stream raises: except Exception around the while loop
RelayStreamError ==
    /\ gpc = "recv" /\ ~upstreamOpen
    /\ websocket_open' = FALSE
    /\ gpc' = "done"
    /\ UNCHANGED <<relayFrame, archiveVars, peerVars, session_captures, sessionVars,
                   should_shutdown, shutdownSaves, current_text, function_responses, old_item,
                   evCount, callCount, relayObs, shutdownEv, endCause>>

(***************************************************************************)
(* Specifications.                                                         *)
(***************************************************************************)
Handler == HandlerConnect \/ HandlerConnectFail \/ HandlerGatherDone
              \/ HandlerGatherRaised \/ HandlerFinally
Client == ClientText \/ ClientVideo \/ ClientAudio \/ ClientBadMessage
              \/ ClientLoop \/ ClientSeesDisconnect
Monitor == MonitorTick \/ MonitorSent
Relay == RelayBreak \/ RelayText(TextChunks) \/ RelayFound2 \/ RelayFound3
              \/ RelayCall(CoordCalls) \/ RelayFollowup \/ RelayToolResponse
              \/ RelayNoToolCall \/ RelayData \/ RelayTail \/ RelayExcept
              \/ RelayStreamError
Environment == ClientDisconnect \/ UpstreamFail \/ Tick(SleepSeconds * TicksPerSecond)

Next == Handler \/ Client \/ Monitor \/ Relay \/ Environment

Spec == Init /\ [][Next]_vars

\* A live session that sends text and calls only
\* enable_continuous_monitoring and shutdown_session, with well-formed
\* arguments: the found branch without the other tools.
FoundCalls ==
    {c \in ToolCalls :
        /\ c.ok
        /\ \/ c.name = "enable_continuous_monitoring" /\ c.arg # None
           \/ c.name = "shutdown_session"}
FoundChunks == {<<"FO">>, <<"und">>}
FoundRelay == RelayBreak \/ RelayText(FoundChunks) \/ RelayFound2 \/ RelayFound3
              \/ RelayCall(FoundCalls) \/ RelayFollowup \/ RelayToolResponse
              \/ RelayNoToolCall \/ RelayData \/ RelayTail \/ RelayExcept
              \/ RelayStreamError

FoundNext == Handler \/ Client \/ Monitor \/ FoundRelay \/ Environment

FoundSpec == Init /\ [][FoundNext]_vars

\* The same live session with a client that sends no video and no audio:
\* the Frame Store stays empty, the monitor finds nothing to send, and what
\* ends the connection is all that the tasks share.
DrainClient == ClientText \/ ClientBadMessage \/ ClientLoop \/ ClientSeesDisconnect

DrainNext == Handler \/ DrainClient \/ MonitorTick \/ FoundRelay \/ Environment

DrainSpec == Init /\ [][DrainNext]_vars

\* A live session whose responses carry text, calls of
\* enable_continuous_monitoring and of capture_and_save_frame with
\* arguments that do not match, and turn-complete markers, the marker also
\* on a response whose processing ends in the except clause.
TurnCalls ==
    {c \in ToolCalls :
        \/ c.name = "enable_continuous_monitoring" /\ c.arg # None
        \/ c.name = "capture_and_save_frame" /\ ~c.ok}
TurnRelay == RelayBreak \/ RelayText(FoundChunks) \/ RelayFound2 \/ RelayFound3
              \/ RelayCall(TurnCalls) \/ RelayFollowup \/ RelayToolResponse
              \/ RelayNoToolCall \/ RelayData \/ RelayTail
              \/ RelayExceptOf(BOOLEAN) \/ RelayStreamError

TurnHandler == HandlerConnect \/ HandlerConnectFail \/ HandlerGatherDone
              \/ HandlerFinally

TurnNext == TurnHandler \/ DrainClient \/ MonitorTick \/ TurnRelay \/ Environment

TurnSpec == Init /\ [][TurnNext]_vars

\* A live session that sends no text and calls only
\* enable_continuous_monitoring, capture_and_save_frame and
\* shutdown_session, with well-formed arguments: the found branch is never
\* entered and no handler raises.
QuietCalls ==
    {c \in ToolCalls :
        /\ c.ok
        /\ \/ c.name = "enable_continuous_monitoring" /\ c.arg # None
           \/ c.name = "capture_and_save_frame"
           \/ c.name = "shutdown_session"}
QuietRelayInternal == RelayCall(QuietCalls) \/ RelayFollowup \/ RelayToolResponse
              \/ RelayNoToolCall \/ RelayData \/ RelayTail \/ RelayExcept
              \/ RelayStreamError
QuietRelay == RelayBreak \/ RelayText({}) \/ QuietRelayInternal

QuietNext == Handler \/ Client \/ Monitor \/ QuietRelay \/ Environment

QuietSpec == Init /\ [][QuietNext]_vars

\* The event loop runs every task that is ready, and timers expire; what
\* the client and the live session deliver (a message, a disconnect, a
\* response, a failure) is not forced.
ClientInternal == ClientLoop \/ ClientSeesDisconnect
Fairness ==
    /\ WF_vars(Handler)
    /\ WF_vars(ClientInternal)
    /\ WF_vars(Monitor)
    /\ WF_vars(QuietRelayInternal)
    /\ WF_vars(Tick(SleepSeconds * TicksPerSecond))

FairSpec == QuietSpec /\ Fairness

\* A client whose messages are video messages with different payloads, and
\* a live session that sends no text and calls only
\* enable_continuous_monitoring and capture_and_save_frame, with
\* well-formed arguments: the Frame Store with its writer and both readers.
FrameCalls ==
    {c \in ToolCalls :
        /\ c.ok
        /\ \/ c.name = "enable_continuous_monitoring" /\ c.arg # None
           \/ c.name = "capture_and_save_frame"}
FrameHandler == HandlerConnect \/ HandlerConnectFail \/ HandlerGatherDone
              \/ HandlerFinally
FrameClient == ClientVideoOf(TwoPayloads) \/ ClientLoop \/ ClientSeesDisconnect
FrameRelay == RelayBreak \/ RelayText({}) \/ RelayCall(FrameCalls) \/ RelayFollowup
              \/ RelayToolResponse \/ RelayNoToolCall \/ RelayData \/ RelayTail
              \/ RelayExcept \/ RelayStreamError

FrameNext == FrameHandler \/ FrameClient \/ Monitor \/ FrameRelay \/ Environment

FrameSpec == Init /\ [][FrameNext]_vars

\* A live session that sends no text and calls an unregistered name,
\* enable_continuous_monitoring and shutdown_session, with well-formed
\* arguments.
UnknownCalls ==
    {c \in ToolCalls :
        /\ c.ok
        /\ \/ c.name \notin ToolNames
           \/ c.name = "enable_continuous_monitoring" /\ c.arg # None
           \/ c.name = "shutdown_session"}
UnknownRelay == RelayBreak \/ RelayText({}) \/ RelayCall(UnknownCalls)
              \/ RelayFollowup \/ RelayToolResponse \/ RelayNoToolCall
              \/ RelayData \/ RelayTail \/ RelayExcept \/ RelayStreamError

UnknownNext == Handler \/ Client \/ Monitor \/ UnknownRelay \/ Environment

UnknownSpec == Init /\ [][UnknownNext]_vars

(***************************************************************************)
(* Two connections of one process, seen at the level of the tool calls.    *)
(* Both connections are past the handshake and their relays execute the    *)
(* function calls of the live session one at a time (a handler runs from   *)
(* its first await-free statement to its return without another task       *)
(* interleaving).  The un-prefixed locals are those of connection          *)
(* `active`; SwitchConnection hands the processor to the other one.        *)
(***************************************************************************)
\* the session view of connection c
View(c) == IF active = c THEN session_captures ELSE peer_captures

\* the process after its start with the given metadata.json and capture
\* files, both connections accepted and connected upstream
StartedWith(archive, stored) ==
    /\ captured_frames = archive
    /\ persisted = archive
    /\ files = stored
    /\ now = 0
    /\ latest_frame = None
    /\ session_captures = EmptyDict
    /\ continuous_mode = FALSE
    /\ monitoring_context = None
    /\ last_notification_time = 0
    /\ should_shutdown = FALSE
    /\ websocket_open = TRUE
    /\ current_text = <<>>
    /\ function_responses = <<>>
    /\ old_item = None
    /\ hpc = "gather"
    /\ gpc = "calls"
    /\ cpc = "recv"
    /\ mpc = "sleep"
    /\ sleepLeft = 0
    /\ clientConnected = TRUE
    /\ upstreamOpen = TRUE
    /\ evCount = 0
    /\ callCount = 0
    /\ evCalls = <<>>
    /\ clientLog = <<>>
    /\ upstreamLog = <<>>
    /\ relayErr = None
    /\ foundSeen = FALSE
    /\ shutdownEv = 0
    /\ prompts = <<>>
    /\ endCause = None
    /\ saveCount = 0
    /\ shutdownSaves = 0
    /\ lastVideo = None
    /\ peer_captures = EmptyDict
    /\ peer_frame = None
    /\ peer_state = FreshState
    /\ staleLen = 0
    /\ idleLen = 0
    /\ active = 1
    /\ lastOp = NoOp

toolFrame == <<current_text, function_responses, old_item, hpc, gpc,
               cpc, mpc, sleepLeft, clientConnected, upstreamOpen, evCount, relayObs,
               shutdownEv, prompts, endCause, saveCount, staleLen,
               idleLen>>
flagVars == <<last_notification_time, should_shutdown, websocket_open>>

\* result = await execute_tool(...) on the active connection; lastOp keeps
\* the call, its result and the state it started from
ToolStep(calls) ==
    \E call \in calls : \E o \in execute_tool(call) :
        /\ lastOp' = [conn |-> active, call |-> call, raised |-> o.raised,
                      result |-> o.result, cf |-> captured_frames,
                      sc |-> session_captures, peer |-> peer_captures,
                      pers |-> persisted, fl |-> files, frame |-> latest_frame,
                      at |-> now]
        /\ captured_frames' = o.cf
        /\ session_captures' = o.sc
        /\ persisted' = o.pers
        /\ files' = o.fl
        /\ continuous_mode' = o.cm
        /\ monitoring_context' = o.ctx
        /\ should_shutdown' = (should_shutdown
                                  \/ (call.name = "shutdown_session"
                                         /\ Get(o.result, "success")))
        /\ shutdownSaves' = IF call.name = "shutdown_session" /\ ~o.raised
                            THEN shutdownSaves + 1 ELSE shutdownSaves
        /\ UNCHANGED <<toolFrame, now, latest_frame, lastVideo, peer_captures,
                       peer_frame, peer_state, active, last_notification_time,
                       websocket_open>>

ToolCall(calls) == ToolStep(calls) /\ UNCHANGED callCount

\* a video message on the active connection
ToolVideo(payloads) ==
    /\ \E data \in payloads : latest_frame' = data /\ lastVideo' = data
    /\ UNCHANGED <<toolFrame, flagVars, shutdownSaves, archiveVars, sessionVars,
                   now, session_captures, peer_captures, peer_frame, peer_state,
                   active, callCount, lastOp>>

\* variant of the switch for a process that keeps one SessionState and one
\* pair of flags for all its connections
SwitchSharingState ==
    /\ active' = 3 - active
    /\ session_captures' = peer_captures
    /\ peer_captures' = session_captures
    /\ latest_frame' = peer_frame
    /\ lastVideo' = peer_frame
    /\ peer_frame' = latest_frame
    /\ peer_state' = [cm |-> continuous_mode, ctx |-> monitoring_context,
                      lnt |-> last_notification_time, open |-> websocket_open,
                      shut |-> should_shutdown]
    /\ UNCHANGED <<toolFrame, flagVars, shutdownSaves, archiveVars, sessionVars,
                   now, callCount, lastOp>>

\* the event loop runs the other connection's tasks
SwitchConnection ==
    /\ active' = 3 - active
    /\ session_captures' = peer_captures
    /\ peer_captures' = session_captures
    /\ latest_frame' = peer_frame
    /\ lastVideo' = peer_frame
    /\ peer_frame' = latest_frame
    /\ continuous_mode' = peer_state.cm
    /\ monitoring_context' = peer_state.ctx
    /\ last_notification_time' = peer_state.lnt
    /\ websocket_open' = peer_state.open
    /\ should_shutdown' = peer_state.shut
    /\ peer_state' = [cm |-> continuous_mode, ctx |-> monitoring_context,
                      lnt |-> last_notification_time, open |-> websocket_open,
                      shut |-> should_shutdown]
    /\ UNCHANGED <<toolFrame, shutdownSaves, archiveVars, now, callCount, lastOp>>

\* the calls of the tool-level specification: well-formed calls of the
\* tools that read or change the archive, and an unregistered name
ArchiveCalls ==
    {c \in ToolCalls :
        /\ c.ok
        /\ c.name \in {"capture_and_save_frame", "delete_frame", "send_email",
                       "list_captured_frames", "get_session_summary",
                       "describe_scene"}}
    \cup {[name |-> "delete_frame", ok |-> TRUE, arg |-> f] : f \in NewIds \ FrameIds}

ToolNext == ToolCall(ArchiveCalls) \/ ToolVideo(TwoPayloads) \/ SwitchConnection
               \/ Tick(SleepSeconds * TicksPerSecond)

ToolSpec == StartedWith(EmptyDict, EmptyDict) /\ [][ToolNext]_vars

(***************************************************************************)
(* Two connections whose tools switch continuous monitoring on and off,    *)
(* with the steps of the coordinator that write a connection's flags: the  *)
(* monitor's time stamp and the relay's reaction to the shutdown flag.     *)
(***************************************************************************)
ModeCalls ==
    {c \in ToolCalls :
        /\ c.ok
        /\ c.name \in {"enable_continuous_monitoring",
                       "disable_continuous_monitoring", "shutdown_session"}}

ModeCall ==
    /\ callCount < MaxCalls
    /\ callCount' = callCount + 1
    /\ ToolStep(ModeCalls)

\* the monitor of the running connection finds a prompt due and, the prompt
\* sent to its live session, stamps last_notification_time
ModePrompt ==
    /\ websocket_open /\ ShouldPrompt
    /\ last_notification_time' = now
    /\ UNCHANGED <<toolFrame, shutdownSaves, archiveVars, sessionVars, now,
                   latest_frame, lastVideo, session_captures, connVars,
                   should_shutdown, websocket_open, callCount>>

\* the relay of the running connection finds should_shutdown set after a
\* response and clears the open flag
ModeShutdownSeen ==
    /\ should_shutdown /\ websocket_open
    /\ websocket_open' = FALSE
    /\ UNCHANGED <<toolFrame, shutdownSaves, archiveVars, sessionVars, now,
                   latest_frame, lastVideo, session_captures, connVars,
                   should_shutdown, last_notification_time, callCount>>

ModeNext == ModeCall \/ ToolVideo(FramePayloads) \/ SwitchConnection
               \/ ModePrompt \/ ModeShutdownSeen
               \/ Tick(SleepSeconds * TicksPerSecond)

ModeSpec == StartedWith(EmptyDict, EmptyDict) /\ [][ModeNext]_vars

\* the session state, the Frame Store and the flags of connection c
StateOf(c) ==
    IF active = c
    THEN [cm |-> continuous_mode, ctx |-> monitoring_context,
          lnt |-> last_notification_time, open |-> websocket_open,
          shut |-> should_shutdown, frame |-> latest_frame]
    ELSE [cm |-> peer_state.cm, ctx |-> peer_state.ctx, lnt |-> peer_state.lnt,
          open |-> peer_state.open, shut |-> peer_state.shut, frame |-> peer_frame]

(***************************************************************************)
(* Two connections that capture and delete while connections end and new   *)
(* ones are accepted.  Every handler runs from one await to the next       *)
(* without yielding to the event loop: an uncontended asyncio.Lock is      *)
(* acquired without a yield, and the bodies of capture_and_save_frame and  *)
(* delete_frame and the finally clause contain no await.                   *)
(***************************************************************************)
FlushCalls ==
    {c \in ToolCalls :
        /\ c.ok
        /\ c.name \in {"capture_and_save_frame", "delete_frame"}}

\* the running connection ends, its finally clause writes the document,
\* and a connection accepted afterwards takes its place
Reconnect ==
    /\ persisted' = save_metadata(captured_frames)
    /\ session_captures' = EmptyDict
    /\ latest_frame' = None /\ lastVideo' = None
    /\ continuous_mode' = FreshState.cm
    /\ monitoring_context' = FreshState.ctx
    /\ last_notification_time' = now
    /\ websocket_open' = FreshState.open
    /\ should_shutdown' = FreshState.shut
    /\ lastOp' = [conn |-> active, call |-> [name |-> "finally", ok |-> TRUE, arg |-> None],
                  raised |-> FALSE, result |-> [success |-> TRUE],
                  cf |-> captured_frames, sc |-> session_captures,
                  peer |-> peer_captures, pers |-> persisted, fl |-> files,
                  frame |-> latest_frame, at |-> now]
    /\ UNCHANGED <<toolFrame, shutdownSaves, captured_frames, files, now,
                   peer_captures, peer_frame, peer_state, active, callCount>>

FlushNext == ToolCall(FlushCalls) \/ ToolVideo(FramePayloads) \/ SwitchConnection
               \/ Reconnect \/ Tick(SleepSeconds * TicksPerSecond)

FlushSpec == StartedWith(EmptyDict, EmptyDict) /\ [][FlushNext]_vars

(***************************************************************************)
(* One connection that captures the same frame_id again after the          *)
(* deduplication window, or after a day, has passed.                       *)
(***************************************************************************)
DayCalls ==
    {c \in ToolCalls :
        /\ c.ok
        /\ c.name \in {"capture_and_save_frame", "delete_frame",
                       "list_captured_frames"}}

\* the deduplication window or a day passes, at most once from any time
\* before it
Elapse(waits) ==
    /\ \E d \in waits : now < d /\ now' = now + d
    /\ UNCHANGED <<toolFrame, flagVars, shutdownSaves, archiveVars, sessionVars,
                   latest_frame, lastVideo, session_captures, connVars, callCount>>

DayNext == ToolCall(DayCalls) \/ ToolVideo(TwoPayloads)
               \/ Elapse({DedupSeconds * TicksPerSecond,
                           SecondsPerDay * TicksPerSecond})

DaySpec == StartedWith(EmptyDict, EmptyDict) /\ [][DayNext]_vars

(***************************************************************************)
(* Observations on the response being processed.                           *)
(***************************************************************************)
\* the relay is about to leave the processing of the current response
EventEnding == gpc \in {"data", "tail", "except"}

\* the client's end is connected and the open flag is up, so every client
\* send made so far went through
ChannelOpen == websocket_open /\ clientConnected

\* a tool_executed notification for call id, carrying its result, was sent
Notified(id) ==
    \E i \in 1..Len(clientLog) :
        /\ clientLog[i].outcome = "ok"
        /\ clientLog[i].data.type = "tool_executed"
        /\ clientLog[i].data.ref = id
        /\ clientLog[i].data.result = evCalls[id].result

\* a function response keyed by call id was sent upstream
Responded(id) == \E i \in 1..Len(upstreamLog) : upstreamLog[i].id = id

\* the found branch was entered and control has left it, before any tool
\* call of the same response
FoundBranchOver ==
    foundSeen # <<>> /\ evCalls = <<>> /\ gpc \in {"calls", "except"}

\* the item_found events sent to the client in the current response
ItemFound == {i \in 1..Len(clientLog) : clientLog[i].data.type = "item_found"}

(***************************************************************************)
(* Properties.                                                             *)
(***************************************************************************)
\* C1: with the client channel open throughout, the tool_executed
\* notification of a call is sent before its function response goes
\* upstream, and every call of the response has its function response
\* sent by the time the relay leaves the response.
C1_NotifiedThenAnswered ==
    ChannelOpen =>
        /\ \A i \in 1..Len(upstreamLog) : Notified(upstreamLog[i].id)
        /\ EventEnding => \A k \in 1..Len(evCalls) : Responded(evCalls[k].id)

\* C2: while the client channel is open, every tool call of a response
\* (registered name, unknown name, or arguments that do not match) has
\* produced a tool_executed notification by the time the relay leaves the
\* response.
C2_EveryCallNotified ==
    (ChannelOpen /\ EventEnding) =>
        \A k \in 1..Len(evCalls) : Notified(evCalls[k].id)

\* C3: every call whose handler returned a result is answered by a function
\* response keyed by its id before the relay leaves the response, also when
\* another call of the same response failed.
C3_EveryCallAnswered ==
    (ChannelOpen /\ EventEnding) =>
        \A k \in 1..Len(evCalls) :
            "exception" \notin DOMAIN evCalls[k].result => Responded(evCalls[k].id)

\* C4: once shutdown_session has returned success the shutdown flag is set,
\* no later response is processed, and the open flag is down as soon as the
\* relay has left the response that carried the call.
C4_ShutdownStopsRelay ==
    shutdownEv > 0 =>
        /\ should_shutdown
        /\ evCount = shutdownEv
        /\ gpc \in {"recv", "done", "cancelled"} => ~websocket_open

\* C5 as stated: when the found branch is over, monitoring is disabled,
\* exactly one item_found event carrying the context held before the
\* disable has been sent, and the text accumulator is empty.
C5_FoundAlwaysAnnounced ==
    FoundBranchOver =>
        /\ ~continuous_mode /\ monitoring_context = None
        /\ Cardinality(ItemFound) = 1
        /\ \A i \in ItemFound : /\ clientLog[i].outcome = "ok"
                                /\ clientLog[i].data.item = foundSeen[1]
        /\ current_text = <<>>

\* C5 amended: when the found branch is over, monitoring is disabled; if
\* the client channel was open throughout, exactly one item_found event
\* carrying the context held before the disable has been sent and the text
\* accumulator is empty.
C5_FoundDisablesMonitoring ==
    FoundBranchOver =>
        /\ ~continuous_mode /\ monitoring_context = None
        /\ ChannelOpen =>
            /\ Cardinality(ItemFound) = 1
            /\ \A i \in ItemFound : /\ clientLog[i].outcome = "ok"
                                    /\ clientLog[i].data.item = foundSeen[1]
            /\ current_text = <<>>

C5_FoundAnnounced ==
    /\ FoundBranchOver /\ ChannelOpen /\ gpc = "calls"
    /\ foundSeen = <<"keys">>
    /\ ItemFound # {}

\* C6: a monitoring prompt is sent only in a step at which continuous_mode
\* is true, the Frame Store holds a frame and the minimum interval has
\* passed since last_notification_time; and no two prompts are sent within
\* the minimum interval of each other.
C6_PromptOnlyWhenDue ==
    [][Len(prompts') > Len(prompts) =>
        /\ continuous_mode
        /\ latest_frame # None
        /\ now - last_notification_time >= MinIntervalTicks
        /\ \A i \in 1..Len(prompts) : now - prompts[i] >= MinIntervalTicks]_vars

C6_TwoPrompts ==
    /\ Len(prompts) >= 2
    /\ mpc = "sleep" /\ last_notification_time = prompts[Len(prompts)]

\* C7: after the client has disconnected the handler eventually reaches
\* its end (all tasks stopped, cleanup run), whatever the live session
\* delivers.
C7_ClosedAfterDisconnect == (~clientConnected) ~> (hpc = "closed")

\* C8: after the live session's stream has failed the handler eventually
\* reaches its end, whatever the client does.
C8_ClosedAfterUpstreamError ==
    (hpc = "gather" /\ ~upstreamOpen) ~> (hpc = "closed")

\* C9: whatever ended the connection (client disconnect, upstream error,
\* shutdown tool, failed handshake), when the handler has ended the cleanup
\* phase has saved the archive and metadata.json holds it.
C9_CleanupPersists ==
    hpc = "closed" =>
        /\ saveCount >= 1
        /\ persisted = save_metadata(captured_frames)

C9_ClosedWithArchive ==
    /\ hpc = "closed"
    /\ endCause = "client_disconnect"
    /\ DOMAIN captured_frames # {}

\* C10: a client send is attempted only while the open flag is up, and an
\* attempt that fails with the already-closed error clears the flag and
\* does not raise into the calling task.
C10_NoSendOnceClosed ==
    [][(clientLog' # clientLog /\ clientLog' # <<>>) =>
        /\ websocket_open
        /\ clientLog'[Len(clientLog')].outcome = "closed" =>
            /\ ~websocket_open'
            /\ gpc' # "except"
            /\ hpc' # "closed"]_vars

C10_SendSuppressed ==
    /\ gpc = "data" /\ ~websocket_open
    /\ evCalls # <<>>
    /\ clientLog # <<>>
    /\ clientLog[Len(clientLog)].outcome = "closed"
    /\ ~Notified(evCalls[Len(evCalls)].id)

(***************************************************************************)
(* A process that starts with a full archive: metadata.json lists          *)
(* MAX_METADATA_ENTRIES captures of earlier runs, one per second before    *)
(* the start.  The process may stop at any time without running a          *)
(* connection's finally clause (kill, crash, redeploy) and start again     *)
(* from the document on disk.                                              *)
(***************************************************************************)
OldIds ==
    <<"f001", "f002", "f003", "f004", "f005", "f006", "f007", "f008",
      "f009", "f010", "f011", "f012", "f013", "f014", "f015", "f016",
      "f017", "f018", "f019", "f020", "f021", "f022", "f023", "f024",
      "f025", "f026", "f027", "f028", "f029", "f030", "f031", "f032",
      "f033", "f034", "f035", "f036", "f037", "f038", "f039", "f040",
      "f041", "f042", "f043", "f044", "f045", "f046", "f047", "f048",
      "f049", "f050", "f051", "f052", "f053", "f054", "f055", "f056",
      "f057", "f058", "f059", "f060", "f061", "f062", "f063", "f064",
      "f065", "f066", "f067", "f068", "f069", "f070", "f071", "f072",
      "f073", "f074", "f075", "f076", "f077", "f078", "f079", "f080",
      "f081", "f082", "f083", "f084", "f085", "f086", "f087", "f088",
      "f089", "f090", "f091", "f092", "f093", "f094", "f095", "f096",
      "f097", "f098", "f099", "f100">>

OldArchive ==
    [k \in {OldIds[i] : i \in 1..MAX_METADATA_ENTRIES} |->
        LET i == CHOOSE j \in 1..MAX_METADATA_ENTRIES : OldIds[j] = k
            timestamp == (i - MAX_METADATA_ENTRIES - 1) * TicksPerSecond
        IN  [filename |-> Filename(k, timestamp), timestamp |-> timestamp]]

OldFiles ==
    [f \in {OldArchive[k].filename : k \in DOMAIN OldArchive} |-> "img1"]

ReloadCalls ==
    {[name |-> "capture_and_save_frame", ok |-> TRUE, arg |-> f] : f \in NewIds}

ReloadCall ==
    /\ callCount < MaxCalls
    /\ callCount' = callCount + 1
    /\ ToolStep(ReloadCalls)

\* the process is started again: captured_frames = load_metadata(), and the
\* connections made afterwards begin with fresh locals
Restart ==
    /\ captured_frames' = load_metadata(persisted)
    /\ session_captures' = EmptyDict
    /\ peer_captures' = EmptyDict
    /\ latest_frame' = None
    /\ lastVideo' = None
    /\ peer_frame' = None
    /\ continuous_mode' = FALSE
    /\ monitoring_context' = None
    /\ peer_state' = FreshState
    /\ active' = 1
    /\ lastOp' = NoOp
    /\ UNCHANGED <<toolFrame, flagVars, shutdownSaves, persisted, files, now,
                   callCount>>

ReloadNext == ReloadCall \/ ToolVideo(FramePayloads) \/ Restart
                 \/ Tick(SleepSeconds * TicksPerSecond)

ReloadSpec == StartedWith(OldArchive, OldFiles) /\ [][ReloadNext]_vars

(***************************************************************************)
(* Observations on the last tool call.                                     *)
(***************************************************************************)
Called(name) == lastOp.conn # 0 /\ lastOp.call.name = name

\* the archive held frame_id, captured less than five seconds ago, when
\* the last call started
RecentlyCaptured(frame_id) ==
    /\ frame_id \in DOMAIN lastOp.cf
    /\ Seconds(lastOp.cf[frame_id].timestamp, lastOp.at) < DedupSeconds

\* C11: a capture request for a frame_id that was captured less than five
\* seconds before, by this or by another connection, returns success
\* flagged duplicate and leaves the archive and the stored files as they
\* were.
C11_SecondCaptureIsDuplicate ==
    (/\ Called("capture_and_save_frame")
     /\ lastOp.frame # None
     /\ RecentlyCaptured(lastOp.call.arg))
    => /\ Get(lastOp.result, "success")
       /\ Get(lastOp.result, "duplicate")
       /\ captured_frames = lastOp.cf
       /\ files = lastOp.fl

\* the last call stored a new capture
Stored == Called("capture_and_save_frame") /\ "frame_id" \in DOMAIN lastOp.result

\* C12: when a capture leaves the archive with more than
\* MAX_METADATA_ENTRIES entries, exactly one entry, one with the oldest
\* timestamp, is evicted, and the archive holds at most
\* MAX_METADATA_ENTRIES entries when the capture returns; also for an
\* archive reloaded from its persisted document.
C12_ArchiveWithinLimit ==
    Stored =>
        LET before == DOMAIN lastOp.cf \cup {lastOp.call.arg}
            evicted == before \ DOMAIN captured_frames
        IN  /\ Cardinality(DOMAIN captured_frames) <= MAX_METADATA_ENTRIES
            /\ Cardinality(before) > MAX_METADATA_ENTRIES
                  => /\ Cardinality(evicted) = 1
                     /\ evicted \subseteq OldestKeys(lastOp.cf)

\* the session views as the connection of the last call and the other
\* connection see them now
CallerView == View(lastOp.conn)
OtherView == View(3 - lastOp.conn)

\* C13: after a successful delete_frame the frame_id is neither in the
\* archive nor in the session view of any connection, and no
\* get_session_summary or list_captured_frames result on any connection
\* names a frame_id that is not in the archive.
C13_DeletedEverywhere ==
    /\ (Called("delete_frame") /\ Get(lastOp.result, "success"))
          => lastOp.call.arg \notin
                 DOMAIN captured_frames \cup DOMAIN CallerView \cup DOMAIN OtherView
    /\ Called("get_session_summary")
          => lastOp.result.captures \subseteq DOMAIN lastOp.cf
    /\ Called("list_captured_frames")
          => {f.frame_id : f \in lastOp.result.frames} \subseteq DOMAIN lastOp.cf

\* C14: delete_frame on a frame_id that is not in the archive returns a
\* failure result and leaves the archive, the session view of every
\* connection, the stored files and the persisted document unchanged.
C14_AbsentDeleteChangesNothing ==
    (Called("delete_frame") /\ lastOp.call.arg \notin DOMAIN lastOp.cf)
    => /\ ~lastOp.raised
       /\ lastOp.result.success = FALSE
       /\ captured_frames = lastOp.cf
       /\ CallerView = lastOp.sc
       /\ OtherView = lastOp.peer
       /\ files = lastOp.fl
       /\ persisted = lastOp.pers

\* an absent frame_id was deleted while the archive, the stored files and
\* the session views of both connections were not empty
C14_AbsentDeleteSeen ==
    /\ Called("delete_frame")
    /\ lastOp.call.arg \notin DOMAIN lastOp.cf
    /\ DOMAIN lastOp.cf # {}
    /\ DOMAIN lastOp.fl # {}
    /\ DOMAIN lastOp.sc # {}
    /\ DOMAIN lastOp.peer # {}

\* C15: a successful send_email whose attach_frame_id is an alias attaches
\* the most recent entry of the caller's session view when that view is not
\* empty, else the most recent entry of the archive, and attaches nothing
\* when both are empty.
C15_AliasAttachesMostRecent ==
    (/\ Called("send_email")
     /\ lastOp.call.arg \in Aliases
     /\ Get(lastOp.result, "success"))
    => IF DOMAIN lastOp.sc # {}
       THEN \E k \in NewestKeys(lastOp.sc) :
                lastOp.result.attached_image = lastOp.sc[k].filename
       ELSE IF DOMAIN lastOp.cf # {}
       THEN \E k \in NewestKeys(lastOp.cf) :
                lastOp.result.attached_image = lastOp.cf[k].filename
       ELSE lastOp.result.attached_image = NoPath

\* C16: a call of a registered tool returns a result mapping, whatever its
\* argument map, and nothing is raised into the relay.
C16_ToolNeverRaises ==
    /\ relayErr = None
    /\ \A k \in 1..Len(evCalls) :
          evCalls[k].name \in ToolNames => "success" \in DOMAIN evCalls[k].result

\* C18: every result mapping, of the eight tools and of an unknown tool,
\* holds a boolean success and a message.
C18_ResultHasSuccessAndMessage ==
    (lastOp.conn # 0 /\ ~lastOp.raised)
    => /\ {"success", "message"} \subseteq DOMAIN lastOp.result
       /\ lastOp.result.success \in BOOLEAN

\* C19: when the session has ended after a successful shutdown_session, the
\* archive was persisted once on the way, by the handler and the finally
\* clause together.
C19_PersistedOnceOnShutdown ==
    (hpc = "closed" /\ shutdownEv > 0) => shutdownSaves + saveCount = 1

\* the calls of the current response whose name is not registered
UnknownIds == {k \in 1..Len(evCalls) : evCalls[k].name \notin ToolNames}

\* the step reads a function call with an unregistered name
ReadsUnknown ==
    /\ Len(evCalls') = Len(evCalls) + 1
    /\ evCalls'[Len(evCalls')].name \notin ToolNames

\* every unknown-tool result of the response was sent to the client and
\* upstream
UnknownSurfaced ==
    (ChannelOpen /\ EventEnding) =>
        \A k \in UnknownIds :
            /\ "error" \in DOMAIN evCalls[k].result
            /\ Notified(evCalls[k].id)
            /\ Responded(evCalls[k].id)

C20_FrameStoreLastWriteWins ==
    [][/\ hpc' # "closed" => latest_frame' = lastVideo'
       /\ (hpc' # "closed" /\ (gpc' # gpc \/ mpc' # mpc \/ evCalls' # evCalls))
             => latest_frame' = latest_frame
       /\ \A f \in DOMAIN files' :
             (f \notin DOMAIN files \/ files'[f] # files[f])
                => files'[f] = lastVideo]_vars

\* a capture and a monitoring prompt read the store, and a later video
\* message replaced the payload the capture had read
C20_FrameOverwritten ==
    /\ hpc = "gather"
    /\ latest_frame = "img2"
    /\ \E f \in DOMAIN files : files[f] = "img1"
    /\ prompts # <<>>

\* C21: capture_and_save_frame called while the Frame Store is empty
\* returns a failure result and leaves the archive, the session views, the
\* stored files and the persisted document unchanged.
C21_EmptyStoreCaptureFails ==
    (Called("capture_and_save_frame") /\ lastOp.frame = None)
    => /\ ~lastOp.raised
       /\ lastOp.result.success = FALSE
       /\ captured_frames = lastOp.cf
       /\ CallerView = lastOp.sc
       /\ OtherView = lastOp.peer
       /\ files = lastOp.fl
       /\ persisted = lastOp.pers

\* a capture was asked for on a connection without a frame while the
\* archive, the stored files and the other connection's view were not empty
C21_EmptyStoreCaptureSeen ==
    /\ Called("capture_and_save_frame")
    /\ lastOp.frame = None
    /\ DOMAIN lastOp.cf # {}
    /\ DOMAIN lastOp.fl # {}
    /\ DOMAIN lastOp.peer # {}

\* the last call was a successful delete_frame
Deleted == Called("delete_frame") /\ Get(lastOp.result, "success")

ModeTools == {"enable_continuous_monitoring", "disable_continuous_monitoring"}

\* C23: enable_continuous_monitoring and disable_continuous_monitoring
\* called a second time in a row by the same connection with the same
\* argument return the same result and leave the session state as the
\* first call left it; and disable_continuous_monitoring always leaves
\* continuous_mode false and the monitoring context cleared.
C23_ModeToolsIdempotent ==
    [][callCount' = callCount + 1 =>
        /\ (/\ lastOp.conn = active
            /\ lastOp.call.name \in ModeTools
            /\ lastOp'.call = lastOp.call)
           => /\ lastOp'.result = lastOp.result
              /\ StateOf(active)' = StateOf(active)
        /\ lastOp'.call.name = "disable_continuous_monitoring"
           => /\ ~continuous_mode'
              /\ monitoring_context' = None
              /\ Get(lastOp'.result, "success")]_vars

\* monitoring was enabled twice in a row for the same item by one
\* connection
C23_EnabledTwice ==
    /\ callCount = 2
    /\ Called("enable_continuous_monitoring")
    /\ lastOp.call.arg # None
    /\ lastOp.conn = active
    /\ continuous_mode /\ monitoring_context = lastOp.call.arg

\* C24: a step of one connection (tool call, client message, monitor or
\* relay step) leaves the mode, the context, the last-notification time,
\* the latest frame and the open and shutdown flags of the other connection
\* unchanged, and a change of the running connection changes neither's.
C24_ConnectionsIsolated ==
    [][\A c \in {1, 2} :
        (c # active \/ active' # active) => StateOf(c)' = StateOf(c)]_vars

\* one connection monitors, holds a frame, was prompted and is shutting
\* down while the other one is still as it was constructed
C24_PeerUntouched ==
    /\ StateOf(1).cm /\ StateOf(1).ctx # None
    /\ StateOf(1).frame # None
    /\ StateOf(1).lnt > 0
    /\ StateOf(1).shut /\ ~StateOf(1).open
    /\ active = 2
    /\ StateOf(2) = [cm |-> FALSE, ctx |-> None, lnt |-> 0, open |-> TRUE,
                     shut |-> FALSE, frame |-> None]

\* C25 as stated: when the found branch has run to its end the coordinator
\* is Draining, its open flag cleared as after a client disconnect, an upstream
\* error or a successful shutdown tool.
C25_FoundDrains == (FoundBranchOver /\ gpc = "calls") => ~websocket_open

\* C25 amended: with the client connected and no task ended, the found
\* branch leaves the coordinator Active (open flag up, tasks running, the relay going on with
\* the same response); the open flag is cleared only once the client has
\* disconnected, a task has ended on an error of the client's or the
\* upstream's side, the shutdown tool has succeeded or the handler has left
\* its tasks.
C25_FoundStaysActive ==
    /\ (FoundBranchOver /\ clientConnected /\ endCause = None)
       => /\ websocket_open /\ ~should_shutdown
          /\ hpc = "gather" /\ gpc = "calls"
    /\ ~websocket_open
       => \/ ~clientConnected \/ ~upstreamOpen \/ should_shutdown
          \/ endCause # None \/ hpc # "gather"

\* the found branch ran to its end for the monitored item with the client
\* connected, and the relay goes on
C25_FoundWhileConnected ==
    /\ FoundBranchOver /\ clientConnected /\ endCause = None
    /\ foundSeen = <<"keys">>
    /\ ~continuous_mode
    /\ websocket_open /\ hpc = "gather"

\* C26: a capture with a frame available, for a frame_id whose entry in
\* the caller's view is DedupSeconds old or older (a day or more included),
\* is not a duplicate: it writes the file of the new capture and replaces
\* the metadata of the frame_id in the archive and in the view.
C26_OldEntryCapturedAgain ==
    (/\ Called("capture_and_save_frame")
     /\ lastOp.frame # None
     /\ lastOp.call.arg \in DOMAIN lastOp.sc
     /\ lastOp.at - lastOp.sc[lastOp.call.arg].timestamp
            >= DedupSeconds * TicksPerSecond)
    => /\ "duplicate" \notin DOMAIN lastOp.result
       /\ captured_frames[lastOp.call.arg].timestamp = lastOp.at
       /\ CallerView[lastOp.call.arg] = captured_frames[lastOp.call.arg]
       /\ Filename(lastOp.call.arg, lastOp.at) \in DOMAIN files

TextOfThisTurn(text) == SubSeq(text, staleLen + 1, Len(text))

\* C28: when the relay enters the found branch, the marker is in the text
\* that arrived since the last turn-complete marker: text of an earlier turn
\* does not contribute to the detection.
C28_FoundFromThisTurn ==
    [][(gpc = "recv" /\ gpc' \in {"found2", "except"} /\ foundSeen' # <<>>)
        => FoundIn(TextOfThisTurn(current_text'))]_vars

\* the text accumulated since continuous_mode was last found false at the
\* arrival of text
TextWhileMonitoring(text) == SubSeq(text, idleLen + 1, Len(text))

\* C29: when the relay enters the found branch, the client connected, the
\* marker is in text that
\* arrived while monitoring was active: text accumulated before
\* enable_continuous_monitoring ran does not cause the disable.
C29_FoundWhileMonitoring ==
    [][(gpc = "recv" /\ gpc' = "found2" /\ foundSeen' # <<>> /\ clientConnected)
        => FoundIn(TextWhileMonitoring(current_text'))]_vars

\* C30: every entry of every connection's session view is an entry of the
\* archive, under the same frame_id and with the same metadata.
C30_ViewsWithinArchive ==
    \A c \in {1, 2} : \A f \in DOMAIN View(c) :
        /\ f \in DOMAIN captured_frames
        /\ captured_frames[f] = View(c)[f]

\* C33: a successful send_email result names an attached frame (an
\* attached_frame_id, a message that says "with attachment") only when an
\* image was attached to the email.
C33_AttachmentNamedOnlyIfAttached ==
    (Called("send_email") /\ Get(lastOp.result, "success"))
    => /\ lastOp.result.attached_frame_id # None
          => lastOp.result.attached_image # NoPath
       /\ lastOp.result.message = "Email sent with attachment"
          => lastOp.result.attached_image # NoPath

\* C31: between the handlers, after every capture (its eviction included),
\* delete, shutdown and flush, the persisted metadata document is the
\* in-memory archive, and so it holds no more than MAX_METADATA_ENTRIES
\* entries.
C31_PersistedIsArchive ==
    /\ load_metadata(persisted) = captured_frames
    /\ Cardinality(DOMAIN persisted) <= MAX_METADATA_ENTRIES

\* C32: once the handler has run its cleanup, no step of the connection's
\* tasks writes the Frame Store or sends a monitoring prompt upstream, and
\* the Frame Store stays empty.
C32_QuietAfterClosed ==
    [][hpc = "closed" =>
        /\ latest_frame' = None
        /\ lastVideo' = lastVideo
        /\ prompts' = prompts]_vars

====
